---------------------------- MODULE Spec2Model ----------------------------
(***************************************************************************)
(* GeoOrchestratorLangGraph (src/geospatial_agents/orchestrator_langgraph  *)
(* .py): the plan synthesizer (collaborator text, repair cascade outcome,  *)
(* heuristic builder), and the LangGraph state machine that executes the   *)
(* plan: planner node, router node with its conditional edge               *)
(* (_should_continue), and the eight handler nodes.                        *)
(*                                                                         *)
(* Representation.  A request text is a sequence of tokens (words, digit   *)
(* runs, URLs).  A task is the record of what step.get(key, default)       *)
(* yields for it, so a missing key and its default are the same value.     *)
(* Optional[int] is a record [some, val].  Parameter maps are records with *)
(* a keys field naming the keys that are present.                          *)
(*                                                                         *)
(* Graph runtime.  The compiled StateGraph keeps the WorkflowState fields  *)
(* in channels.  A node is called with a dict read from the channels and   *)
(* the dict it returns is written back; messages is declared with the      *)
(* operator.add reducer, every other field is last-value.  The callable of *)
(* a conditional edge is called with a dict of its own, read from the      *)
(* channels after the node's writes: nothing it assigns to a key of that   *)
(* dict is written back.  Its return value is looked up in the edge map;   *)
(* a value that is not a key of the map raises out of invoke().            *)
(***************************************************************************)
EXTENDS Integers, Sequences, FiniteSets, Bags, TLC

(***************************************************************************)
(* Bounds of the model.                                                    *)
(***************************************************************************)
\* longest plan the collaborator's parsed response holds
MaxLen == 3
\* longest request text, in tokens, handed to the heuristic builder alone
MaxWords == 3
\* longest collaborator text, in characters, handed to the repair cascade alone
MaxText == 4

(***************************************************************************)
(* Program constants.                                                      *)
(***************************************************************************)
DefaultLimit == 10
DownloadCap == 5

VARIABLES
    user_request,      \* WorkflowState.user_request
    llm_response,      \* what the collaborator returned (response.content)
    json_str,          \* _plan_workflow's local json_str: the candidate text
    requested_limit,   \* _plan_workflow's local requested_limit
    workflow_plan,     \* WorkflowState.workflow_plan
    current_step,      \* WorkflowState.current_step
    total_steps,       \* WorkflowState.total_steps
    search_results,    \* WorkflowState.search_results
    downloaded_data,   \* WorkflowState.downloaded_data
    processed_data,    \* WorkflowState.processed_data
    analysis_results,  \* WorkflowState.analysis_results
    visualizations,    \* WorkflowState.visualizations
    exports,           \* WorkflowState.exports
    errors,            \* WorkflowState.errors
    messages,          \* WorkflowState.messages (a bag: content -> count)
    final_outputs,     \* WorkflowState.final_outputs
    pc,                \* the graph node about to run, or "end" / "raised"
    result,            \* what execute() returned
    handled,           \* history: handler invocations, in order
    skipLog            \* history: indices the dependency gate skipped, in order

vars == <<user_request, llm_response, json_str, requested_limit, workflow_plan,
          current_step, total_steps, search_results, downloaded_data,
          processed_data, analysis_results, visualizations, exports, errors,
          messages, final_outputs, pc, result, handled, skipLog>>

(***************************************************************************)
(* Optional[int]                                                           *)
(***************************************************************************)
NoneInt == [some |-> FALSE, val |-> 0]
SomeInt(n) == [some |-> TRUE, val |-> n]
\* Python truthiness of an Optional[int]: None and 0 are falsy
Truthy(opt) == opt.some /\ opt.val # 0

Min(a, b) == IF a <= b THEN a ELSE b

(***************************************************************************)
(* Request texts: sequences of tokens.                                     *)
(***************************************************************************)
PlainUrl == "https://example.com/data.zip"
BlobUrl == "https://github.com/u/r/blob/main/f.csv"
RawUrl == "https://raw.githubusercontent.com/u/r/main/f.csv"

HfUrl == "https://huggingface.co/datasets/org/name"

UrlTokens == {PlainUrl, BlobUrl, HfUrl}
DigitTokens == {"0", "7"}
NumberWords == {"twelve"}
WordTokens == {"Search", "download", "together", "process", "map", "export", "data"}
Vocabulary == WordTokens \cup DigitTokens \cup NumberWords \cup UrlTokens

\* str.lower() of a token
Lower(tok) == IF tok = "Search" THEN "search" ELSE tok

\* the keywords that are substrings of a (lowercased) token
KeywordsIn(tok) ==
    CASE tok = "search"   -> {"search"}
      [] tok = "download" -> {"download"}
      [] tok = "together" -> {"get"}
      [] tok = "process"  -> {"process"}
      [] tok = "map"      -> {"map"}
      [] tok = "export"   -> {"export"}
      [] OTHER            -> {}

\* keyword in request_lower
Contains(text, keyword) ==
    \E i \in 1..Len(text) : keyword \in KeywordsIn(Lower(text[i]))

ContainsAny(text, keywords) == \E k \in keywords : Contains(text, k)

DigitValue(tok) == IF tok = "7" THEN 7 ELSE 0

RECURSIVE SelectTokens(_, _)
\* the tokens of text that are in set S, in order
SelectTokens(text, S) ==
    IF text = <<>> THEN <<>>
    ELSE IF Head(text) \in S THEN <<Head(text)>> \o SelectTokens(Tail(text), S)
    ELSE SelectTokens(Tail(text), S)

\* re.findall(url_pattern, text)
ExtractUrls(text) == SelectTokens(text, UrlTokens)

IsHuggingfaceUrl(url) == url = HfUrl

ConvertGithubBlobUrl(url) == IF url = BlobUrl THEN RawUrl ELSE url

ConvertedUrls(urls) ==
    [i \in 1..Len(urls) |->
        IF IsHuggingfaceUrl(urls[i]) THEN urls[i] ELSE ConvertGithubBlobUrl(urls[i])]

NumberWordValue(w) == IF w = "twelve" THEN 12 ELSE 0

\* w2n.word_to_num on up to three vocabulary words
Word2Num(ws) ==
    CASE Len(ws) = 1 -> NumberWordValue(ws[1])
      [] Len(ws) = 2 -> NumberWordValue(ws[1]) + NumberWordValue(ws[2])
      [] OTHER       -> NumberWordValue(ws[1]) * NumberWordValue(ws[2])
                            + NumberWordValue(ws[3])

ExtractNumber(text) ==
    LET numbers == SelectTokens(text, DigitTokens)
        number_phrases == SelectTokens(text, NumberWords)
    IN  IF numbers # <<>> THEN SomeInt(DigitValue(numbers[1]))
        ELSE IF number_phrases # <<>>
             THEN SomeInt(Word2Num(SubSeq(number_phrases, 1, Min(3, Len(number_phrases)))))
        ELSE NoneInt

(***************************************************************************)
(* Tasks                                                                   *)
(***************************************************************************)
KnownStepTypes == <<"search", "download", "spatial_query", "transform",
                    "process", "analysis", "visualization", "export">>

KnownStepTypeSet == {KnownStepTypes[i] : i \in 1..Len(KnownStepTypes)}

\* a parameter map; keys names the keys present
Params(keys, query, limit, urls, format) ==
    [keys |-> keys, query |-> query, limit |-> limit, urls |-> urls, format |-> format]

EmptyParams == Params({}, <<>>, 0, <<>>, "")

\* a description text, with the request it interpolates (if any)
Desc(text, request) == [text |-> text, request |-> request]

Task(step_type, description, parameters, dependencies) ==
    [is_dict |-> TRUE, step_type |-> step_type, description |-> description,
     parameters |-> parameters, dependencies |-> dependencies]

\* a list element that is no dict (a number, a string)
Scalar ==
    [is_dict |-> FALSE, step_type |-> "", description |-> Desc("", <<>>),
     parameters |-> EmptyParams, dependencies |-> <<>>]


(***************************************************************************)
(* Heuristic builder: _create_smart_default_workflow                       *)
(***************************************************************************)
download_keywords == {"download", "get", "fetch", "retrieve", "obtain"}
process_keywords == {"process", "analyze", "transform", "reproject", "clip",
                     "calculate", "compute"}
viz_keywords == {"visualize", "map", "plot", "show", "display"}
export_keywords == {"export", "save", "output"}

\* bool(workflow): a list is truthy when it is not empty
ListTruthy(workflow) == workflow # <<>>

HasStepOfType(workflow, types) ==
    \E i \in 1..Len(workflow) : workflow[i].step_type \in types

SearchTask(request, default_limit) ==
    Task("search",
         Desc("Search for geospatial datasets related to: ", request),
         Params({"query", "limit"}, request, default_limit, <<>>, ""),
         <<>>)

\* {"limit": min(default_limit, 5)} plus, when urls is not empty, url and urls
DownloadParams(default_limit, urls) ==
    IF urls # <<>>
    THEN Params({"limit", "url", "urls"}, <<>>, Min(default_limit, DownloadCap), urls, "")
    ELSE Params({"limit"}, <<>>, Min(default_limit, DownloadCap), <<>>, "")

\* lines 233-240
SearchBlock(workflow, request, default_limit, has_url) ==
    IF ~has_url /\ (~Contains(request, "download") \/ Contains(request, "search"))
    THEN Append(workflow, SearchTask(request, default_limit))
    ELSE workflow

\* a download step that always names step 0 as its dependency
DownloadBlockAlwaysDepends(workflow, request, default_limit, urls) ==
    LET has_url == Len(urls) > 0
    IN  IF ContainsAny(request, download_keywords) \/ has_url
        THEN Append(workflow,
                 Task("download",
                      Desc(IF has_url THEN "Download from URL"
                           ELSE "Download the identified datasets", <<>>),
                      DownloadParams(default_limit,
                                     IF has_url THEN ConvertedUrls(urls) ELSE <<>>),
                      <<0>>))
        ELSE workflow

\* lines 242-266
DownloadBlock(workflow, request, default_limit, urls) ==
    LET has_url == Len(urls) > 0
    IN  IF ContainsAny(request, download_keywords) \/ has_url
        THEN Append(workflow,
                 Task("download",
                      Desc(IF has_url THEN "Download from URL"
                           ELSE "Download the identified datasets", <<>>),
                      DownloadParams(default_limit,
                                     IF has_url THEN ConvertedUrls(urls) ELSE <<>>),
                      IF ListTruthy(workflow) /\ ~has_url THEN <<0>> ELSE <<>>))
        ELSE workflow

\* a process step that names its own position: [len(workflow)]
ProcessBlockSelfDependent(workflow, request) ==
    IF ContainsAny(request, process_keywords)
    THEN Append(workflow,
             Task("process", Desc("Process the downloaded data: ", request),
                  EmptyParams,
                  IF ListTruthy(workflow) THEN <<Len(workflow)>> ELSE <<>>))
    ELSE workflow

\* lines 268-276
ProcessBlock(workflow, request) ==
    IF ContainsAny(request, process_keywords)
    THEN Append(workflow,
             Task("process", Desc("Process the downloaded data: ", request),
                  EmptyParams,
                  IF ListTruthy(workflow) THEN <<Len(workflow) - 1>> ELSE <<>>))
    ELSE workflow

\* no download step is added before a visualization or an export
EnsureDataStepNever(workflow, data_types, default_limit, has_url, text) == workflow

\* lines 283-290 and 304-311: the download step added when no data step exists
EnsureDataStep(workflow, data_types, default_limit, has_url, text) ==
    IF ~HasStepOfType(workflow, data_types) /\ ~has_url
    THEN Append(workflow,
             Task("download", Desc(text, <<>>), DownloadParams(default_limit, <<>>),
                  IF ListTruthy(workflow) /\ workflow[1].step_type = "search"
                  THEN <<0>> ELSE <<>>))
    ELSE workflow

\* lines 278-297
VisualizationBlock(workflow, request, default_limit, has_url) ==
    IF ContainsAny(request, viz_keywords)
    THEN LET w == EnsureDataStep(workflow, {"download", "process", "analysis"},
                                 default_limit, has_url,
                                 "Download datasets needed for visualization")
         IN  Append(w, Task("visualization",
                            Desc("Create visualization of the results", <<>>),
                            EmptyParams,
                            IF ListTruthy(w) THEN <<Len(w) - 1>> ELSE <<>>))
    ELSE workflow

\* lines 299-318
ExportBlock(workflow, request, default_limit, has_url) ==
    IF ContainsAny(request, export_keywords)
    THEN LET w == EnsureDataStep(workflow,
                                 {"download", "process", "analysis", "visualization"},
                                 default_limit, has_url,
                                 "Download datasets needed for export")
         IN  Append(w, Task("export", Desc("Export the results", <<>>),
                            Params({"format"}, <<>>, 0, <<>>, "geojson"),
                            IF ListTruthy(w) THEN <<Len(w) - 1>> ELSE <<>>))
    ELSE workflow

\* [self._convert_github_blob_url(url) for url in urls]
BlobConvertedUrls(urls) == [i \in 1..Len(urls) |-> ConvertGithubBlobUrl(urls[i])]

\* lines 320-335
LateDownloadBlock(workflow, request, default_limit, urls) ==
    IF (~ListTruthy(workflow)
          \/ (Len(workflow) = 1 /\ workflow[1].step_type = "search"))
       /\ Contains(request, "download")
    THEN Append(workflow,
             Task("download",
                  Desc(IF Len(urls) > 0 THEN "Download from URL"
                       ELSE "Download the identified datasets", <<>>),
                  DownloadParams(default_limit, BlobConvertedUrls(urls)),
                  IF ListTruthy(workflow) THEN <<0>> ELSE <<>>))
    ELSE workflow

\* a return that slices the first step off: return workflow[1:]
FinalReturnSliced(workflow, request, default_limit, urls) ==
    IF workflow = <<>> THEN <<>> ELSE Tail(workflow)

\* lines 337-355
FinalReturn(workflow, request, default_limit, urls) ==
    IF Len(urls) > 0 /\ ~ListTruthy(workflow)
    THEN <<Task("download", Desc("Download dataset from URL", <<>>),
                Params({"url", "urls"}, <<>>, 0, BlobConvertedUrls(urls), ""),
                <<>>)>>
    ELSE IF ListTruthy(workflow) THEN workflow
    ELSE <<SearchTask(request, default_limit)>>

CreateSmartDefaultWorkflow(request, limit) ==
    LET default_limit == IF Truthy(limit) THEN limit.val ELSE DefaultLimit
        urls == ExtractUrls(request)
        has_url == Len(urls) > 0
        w1 == SearchBlock(<<>>, request, default_limit, has_url)
        w2 == DownloadBlock(w1, request, default_limit, urls)
        w3 == ProcessBlock(w2, request)
        w4 == VisualizationBlock(w3, request, default_limit, has_url)
        w5 == ExportBlock(w4, request, default_limit, has_url)
        w6 == LateDownloadBlock(w5, request, default_limit, urls)
    IN  FinalReturn(w6, request, default_limit, urls)


(***************************************************************************)
(* Planner node: _plan_workflow                                            *)
(***************************************************************************)
\* lines 472-508: the list the cascade parsed, or the heuristic plan when no
\* array-shaped substring exists or every pass raised
ParsedOrDefault(request, response, limit) ==
    IF response.kind = "parsed" THEN response.value
    ELSE CreateSmartDefaultWorkflow(request, limit)

\* lines 518-524
InjectLimit(step, limit) ==
    IF step.step_type = "search" /\ "limit" \notin step.parameters.keys
    THEN [step EXCEPT !.parameters.keys = @ \cup {"limit"},
                      !.parameters.limit = limit.val]
    ELSE step

\* a validation that accepts the empty list as a plan
ValidatePlanKeepsEmpty(plan, request, limit) ==
    IF Truthy(limit) THEN [i \in 1..Len(plan) |-> InjectLimit(plan[i], limit)]
    ELSE plan

\* lines 510-524
ValidatePlan(plan, request, limit) ==
    IF Len(plan) = 0 THEN CreateSmartDefaultWorkflow(request, limit)
    ELSE IF Truthy(limit) THEN [i \in 1..Len(plan) |-> InjectLimit(plan[i], limit)]
    ELSE plan

\* lines 518 and 531: step.get / s.get on a list element that is no dict
\* raises AttributeError, outside every try block of _plan_workflow
PlanRaises(plan) == \E i \in 1..Len(plan) : ~plan[i].is_dict

(***************************************************************************)
(* messages: Annotated[Sequence, operator.add]                             *)
(***************************************************************************)
Msg(content, n) == [content |-> content, n |-> n]

\* state["messages"].append(...): the list object is the channel's own value
AppendMsg(msgs, m) == msgs (+) SetToBag({m})

\* a node returns the state dict it was given: the channel applies
\* operator.add to its value and the returned list, which is the same list
NodeReturn(msgs) == msgs (+) msgs

(***************************************************************************)
(* Router node and its conditional edge                                    *)
(***************************************************************************)
\* a gate that lets a task depend on itself: dep_idx > current_step
AllDepsMetSelfAllowed(step, at) ==
    \A k \in 1..Len(step.dependencies) : ~(step.dependencies[k] > at)

\* a gate off by one: dep_idx >= current_step - 1
AllDepsMetOffByOne(step, at) ==
    \A k \in 1..Len(step.dependencies) : ~(step.dependencies[k] >= at - 1)

\* lines 558-563
AllDepsMet(step, at) ==
    \A k \in 1..Len(step.dependencies) : ~(step.dependencies[k] >= at)

RECURSIVE ShouldContinue(_, _)
\* _should_continue on a state dict whose current_step is at: the value
\* returned, the current_step of that dict on return, the indices skipped
ShouldContinue(plan, at) ==
    IF at >= Len(plan) THEN [route |-> "end", at |-> at, skipped |-> <<>>]
    ELSE IF ~AllDepsMet(plan[at + 1], at)
         THEN LET r == ShouldContinue(plan, at + 1)
              IN  [r EXCEPT !.skipped = <<at>> \o @]
    ELSE [route |-> IF plan[at + 1].step_type # "" THEN plan[at + 1].step_type
                    ELSE "end",
          at |-> at, skipped |-> <<>>]

\* lines 168-182: the edge map of add_conditional_edges; a value it does not
\* hold raises KeyError out of invoke()
ConditionalEdge(route) ==
    IF route \in KnownStepTypeSet THEN route
    ELSE IF route = "end" THEN "END"
    ELSE "raised"

\* the current_step channel after the conditional edge ran: the callable's
\* state["current_step"] = current_step + 1 (line 567) is on its own dict
CurrentStepAfterEdge(channel_value, edge_value) == channel_value

\* a router that drops the tasks it skipped from the stored plan
RouteNextStepDropsSkipped ==
    /\ pc = "router"
    /\ LET r == ShouldContinue(workflow_plan, current_step)
       IN  /\ skipLog' = skipLog \o r.skipped
           /\ current_step' = CurrentStepAfterEdge(current_step, r.at)
           /\ pc' = ConditionalEdge(r.route)
           /\ workflow_plan' =
                  IF r.skipped = <<>> THEN workflow_plan
                  ELSE SubSeq(workflow_plan, 1, current_step)
                       \o SubSeq(workflow_plan, r.at + 1, Len(workflow_plan))
    /\ messages' = NodeReturn(messages)
    /\ UNCHANGED <<user_request, llm_response, json_str, requested_limit,
                   total_steps, search_results, downloaded_data, processed_data,
                   analysis_results, visualizations, exports, errors,
                   final_outputs, result, handled>>

RouteNextStep ==
    /\ pc = "router"
    /\ LET r == ShouldContinue(workflow_plan, current_step)
       IN  /\ skipLog' = skipLog \o r.skipped
           /\ current_step' = CurrentStepAfterEdge(current_step, r.at)
           /\ pc' = ConditionalEdge(r.route)
    /\ messages' = NodeReturn(messages)
    /\ UNCHANGED <<user_request, llm_response, json_str, requested_limit, workflow_plan,
                   total_steps, search_results, downloaded_data, processed_data,
                   analysis_results, visualizations, exports, errors,
                   final_outputs, result, handled>>


PlanWorkflow ==
    /\ pc = "planner"
    /\ LET limit == ExtractNumber(user_request)
           plan == ValidatePlan(ParsedOrDefault(user_request, llm_response, limit),
                                user_request, limit)
       IN  /\ requested_limit' = limit
           /\ IF PlanRaises(plan)
              THEN /\ pc' = "raised"
                   /\ UNCHANGED <<workflow_plan, total_steps, current_step, messages>>
              ELSE /\ workflow_plan' = plan
                   /\ total_steps' = Len(plan)
                   /\ current_step' = 0
                   /\ messages' = NodeReturn(AppendMsg(messages,
                                      Msg("Workflow planned", Len(plan))))
                   /\ pc' = "router"
    /\ UNCHANGED <<user_request, llm_response, json_str, search_results, downloaded_data,
                   processed_data, analysis_results, visualizations, exports,
                   errors, final_outputs, result, handled, skipLog>>

(***************************************************************************)
(* Handler nodes                                                           *)
(***************************************************************************)
\* what a handler produced for the step it was called at
Artifact(node, at) == [by |-> node, at |-> at]
\* Python None as a produced value
NoneArtifact == [by |-> "None", at |-> 0]

\* an entry without the step name: str(e) alone
ErrorEntryBare(prefix) == [step |-> "", message |-> "E"]

\* f"<prefix> step failed: {str(e)}"
ErrorEntry(prefix) == [step |-> prefix, message |-> "E"]

\* f"<step_type>_{current_step}"
StepKey(prefix, at) == [prefix |-> prefix, step |-> at]

\* dict.update
DictUpdate(d, u) ==
    [k \in DOMAIN d \cup DOMAIN u |-> IF k \in DOMAIN u THEN u[k] ELSE d[k]]

\* d[key] = value
DictSet(d, key, value) ==
    [k \in DOMAIN d \cup {key} |-> IF k = key THEN value ELSE d[k]]

\* step = workflow_plan[current_step], read from the channels
StepAt(plan, at) == plan[at + 1]

\* a call that passes no parameters: handler.execute(task_description, {}, context)
InvocationWithoutParameters(node, description, outcome) ==
    [node |-> node, index |-> current_step, description |-> description,
     parameters |-> EmptyParams, outcome |-> outcome]

\* the call handler.execute(task_description, parameters, context)
Invocation(node, description, outcome) ==
    [node |-> node, index |-> current_step, description |-> description,
     parameters |-> StepAt(workflow_plan, current_step).parameters,
     outcome |-> outcome]

\* an except branch that re-raises: the error leaves invoke()
FailureEdgeReraises(node) == "raised"

\* where control goes after the except branch returned the state
FailureEdge(node) == "router"

\* the except branch of a handler node, and the edge back to the router
StepFailed(node, prefix, description) ==
    /\ errors' = Append(errors, ErrorEntry(prefix))
    /\ current_step' = current_step + 1
    /\ messages' = NodeReturn(messages)
    /\ pc' = FailureEdge(node)
    /\ handled' = Append(handled, Invocation(node, description, "raise"))

\* a try branch that records a result without its product as a failure
StepCompletedRecordsMissing(node, description, outcome, msg) ==
    /\ current_step' = current_step + 1
    /\ messages' = NodeReturn(AppendMsg(messages, msg))
    /\ pc' = "router"
    /\ handled' = Append(handled, Invocation(node, description, outcome))
    /\ errors' = IF outcome \in {"null", "absent"}
                 THEN Append(errors, ErrorEntry(node)) ELSE errors

\* the end of the try branch of a handler node, and the edge back to the router
StepCompleted(node, description, outcome, msg) ==
    /\ current_step' = current_step + 1
    /\ messages' = NodeReturn(AppendMsg(messages, msg))
    /\ pc' = "router"
    /\ handled' = Append(handled, Invocation(node, description, outcome))
    /\ UNCHANGED errors

StepDescription == StepAt(workflow_plan, current_step).description

DatasetNames == {"ds1", "ds2"}

ExecuteSearch ==
    /\ pc = "search"
    /\ \E outcome \in {"raise", "value", "null"} :
          IF outcome = "raise"
          THEN /\ StepFailed("search", "Search", StepDescription)
               /\ UNCHANGED search_results
          ELSE LET results == IF outcome = "value"
                              THEN <<Artifact("search", current_step)>> ELSE <<>>
               IN  /\ search_results' = results
                   /\ StepCompleted("search", StepDescription, outcome,
                          IF results # <<>>
                          THEN Msg("Search completed: found results", Len(results))
                          ELSE Msg("Search completed but no results found", 0))
    /\ UNCHANGED <<user_request, llm_response, json_str, requested_limit, workflow_plan,
                   total_steps, downloaded_data, processed_data, analysis_results,
                   visualizations, exports, final_outputs, result, skipLog>>

ExecuteDownload ==
    /\ pc = "download"
    /\ \E outcome \in {"raise", "null"} \cup DatasetNames :
          IF outcome = "raise"
          THEN /\ StepFailed("download", "Download", Desc("", user_request))
               /\ UNCHANGED downloaded_data
          ELSE LET got == IF outcome \in DatasetNames
                          THEN [n \in {outcome} |-> Artifact("download", current_step)]
                          ELSE <<>>
               IN  /\ downloaded_data' = DictUpdate(downloaded_data, got)
                   /\ StepCompleted("download", Desc("", user_request), outcome,
                          Msg("Download completed", Cardinality(DOMAIN got)))
    /\ UNCHANGED <<user_request, llm_response, json_str, requested_limit, workflow_plan,
                   total_steps, search_results, processed_data, analysis_results,
                   visualizations, exports, final_outputs, result, skipLog>>

\* if "<key>" in results: state["processed_data"][f"<node>_{current_step}"] =
\* results["<key>"]; the produced value may be None
StoreProduced(data, node, outcome) ==
    IF outcome = "absent" THEN data
    ELSE DictSet(data, StepKey(node, current_step),
             IF outcome = "value" THEN Artifact(node, current_step) ELSE NoneArtifact)

ExecuteSpatialQuery ==
    /\ pc = "spatial_query"
    /\ \E outcome \in {"raise", "value", "null", "absent"} :
          IF outcome = "raise"
          THEN /\ StepFailed("spatial_query", "Spatial query", StepDescription)
               /\ UNCHANGED processed_data
          ELSE /\ processed_data' = StoreProduced(processed_data, "spatial_query", outcome)
               /\ StepCompleted("spatial_query", StepDescription, outcome,
                      Msg("Spatial query completed", 0))
    /\ UNCHANGED <<user_request, llm_response, json_str, requested_limit, workflow_plan,
                   total_steps, search_results, downloaded_data, analysis_results,
                   visualizations, exports, final_outputs, result, skipLog>>

ExecuteTransform ==
    /\ pc = "transform"
    /\ \E outcome \in {"raise", "value", "null", "absent"} :
          IF outcome = "raise"
          THEN /\ StepFailed("transform", "Transform", StepDescription)
               /\ UNCHANGED processed_data
          ELSE /\ processed_data' = StoreProduced(processed_data, "transform", outcome)
               /\ StepCompleted("transform", StepDescription, outcome,
                      Msg("Transform completed", 0))
    /\ UNCHANGED <<user_request, llm_response, json_str, requested_limit, workflow_plan,
                   total_steps, search_results, downloaded_data, analysis_results,
                   visualizations, exports, final_outputs, result, skipLog>>

ExecuteProcess ==
    /\ pc = "process"
    /\ \E outcome \in {"raise", "value", "null", "absent"} :
          IF outcome = "raise"
          THEN /\ StepFailed("process", "Process", StepDescription)
               /\ UNCHANGED processed_data
          ELSE /\ processed_data' = StoreProduced(processed_data, "process", outcome)
               /\ StepCompleted("process", StepDescription, outcome,
                      Msg("Processing completed", 0))
    /\ UNCHANGED <<user_request, llm_response, json_str, requested_limit, workflow_plan,
                   total_steps, search_results, downloaded_data, analysis_results,
                   visualizations, exports, final_outputs, result, skipLog>>

ExecuteAnalysis ==
    /\ pc = "analysis"
    /\ \E outcome \in {"raise", "value", "null"} :
          IF outcome = "raise"
          THEN /\ StepFailed("analysis", "Analysis", StepDescription)
               /\ UNCHANGED analysis_results
          ELSE /\ analysis_results' =
                     DictSet(analysis_results, StepKey("analysis", current_step),
                         IF outcome = "value" THEN Artifact("analysis", current_step)
                         ELSE NoneArtifact)
               /\ StepCompleted("analysis", StepDescription, outcome,
                      Msg("Analysis completed", 0))
    /\ UNCHANGED <<user_request, llm_response, json_str, requested_limit, workflow_plan,
                   total_steps, search_results, downloaded_data, processed_data,
                   visualizations, exports, final_outputs, result, skipLog>>

ExecuteVisualization ==
    /\ pc = "visualization"
    /\ \E outcome \in {"raise", "value", "null"} :
          IF outcome = "raise"
          THEN /\ StepFailed("visualization", "Visualization", StepDescription)
               /\ UNCHANGED visualizations
          ELSE /\ visualizations' =
                     IF outcome = "value"
                     THEN Append(visualizations, Artifact("visualization", current_step))
                     ELSE visualizations
               /\ StepCompleted("visualization", StepDescription, outcome,
                      Msg("Visualization completed", 0))
    /\ UNCHANGED <<user_request, llm_response, json_str, requested_limit, workflow_plan,
                   total_steps, search_results, downloaded_data, processed_data,
                   analysis_results, exports, final_outputs, result, skipLog>>

\* an export step that appends the path to exports only
ExecuteExportOnlyExports ==
    /\ pc = "export"
    /\ \E outcome \in {"raise", "value", "null"} :
          IF outcome = "raise"
          THEN /\ StepFailed("export", "Export", StepDescription)
               /\ UNCHANGED <<exports, final_outputs>>
          ELSE /\ IF outcome = "value"
                  THEN /\ exports' = Append(exports, Artifact("export", current_step))
                       /\ UNCHANGED final_outputs
                  ELSE UNCHANGED <<exports, final_outputs>>
               /\ StepCompleted("export", StepDescription, outcome,
                      Msg("Export completed", 0))
    /\ UNCHANGED <<user_request, llm_response, json_str, requested_limit, workflow_plan,
                   total_steps, search_results, downloaded_data, processed_data,
                   analysis_results, visualizations, result, skipLog>>

ExecuteExport ==
    /\ pc = "export"
    /\ \E outcome \in {"raise", "value", "null"} :
          IF outcome = "raise"
          THEN /\ StepFailed("export", "Export", StepDescription)
               /\ UNCHANGED <<exports, final_outputs>>
          ELSE /\ IF outcome = "value"
                  THEN /\ exports' = Append(exports, Artifact("export", current_step))
                       /\ final_outputs' =
                              Append(final_outputs, Artifact("export", current_step))
                  ELSE UNCHANGED <<exports, final_outputs>>
               /\ StepCompleted("export", StepDescription, outcome,
                      Msg("Export completed", 0))
    /\ UNCHANGED <<user_request, llm_response, json_str, requested_limit, workflow_plan,
                   total_steps, search_results, downloaded_data, processed_data,
                   analysis_results, visualizations, result, skipLog>>

(***************************************************************************)
(* execute                                                                 *)
(***************************************************************************)
NoResult ==
    [returned |-> FALSE, success |-> FALSE, search_results |-> <<>>,
     downloaded_data |-> <<>>, processed_data |-> <<>>, final_outputs |-> <<>>,
     visualizations |-> <<>>, analysis_results |-> <<>>, errors |-> <<>>,
     messages |-> EmptyBag]

\* a flag that tolerates one error
SuccessFlagOffByOne(errs) == Len(errs) <= 1

\* len(final_state.get("errors", [])) == 0
SuccessFlag(errs) == Len(errs) = 0

\* lines 841-851: the dict built from the final state
ExecuteReturn ==
    /\ pc = "END"
    /\ result' = [returned |-> TRUE,
                  success |-> SuccessFlag(errors),
                  search_results |-> search_results,
                  downloaded_data |-> downloaded_data,
                  processed_data |-> processed_data,
                  final_outputs |-> final_outputs,
                  visualizations |-> visualizations,
                  analysis_results |-> analysis_results,
                  errors |-> errors,
                  messages |-> messages]
    /\ pc' = "returned"
    /\ UNCHANGED <<user_request, llm_response, json_str, requested_limit, workflow_plan,
                   current_step, total_steps, search_results, downloaded_data,
                   processed_data, analysis_results, visualizations, exports,
                   errors, messages, final_outputs, handled, skipLog>>

(***************************************************************************)
(* Inputs                                                                  *)
(***************************************************************************)
\* request texts of at most n tokens
RequestsUpTo(n) == UNION {[1..k -> Vocabulary] : k \in 0..n}

\* request texts of a run: the empty text and the one-token texts
RunRequests == {<<>>} \cup {<<t>> : t \in Vocabulary}

\* request texts of a run on a parsed plan that hold a quantity: 7, and 0
QuantityRunRequests == {<<"7">>, <<"0">>}

\* the known step types a parsed plan is written in: slot i of a plan holds
\* KnownStepTypes[(rot + i) mod 8]
Rotations == {0, 3, 6}

TypeAt(rot, i) == KnownStepTypes[((rot + i) % Len(KnownStepTypes)) + 1]

Shapes == {"known", "first", "after0", "forward", "limited", "empty",
           "emptyfwd", "other"}

ParsedDesc == Desc("step", <<>>)

\* the list element of shape sh at index i (from 0)
ShapeTask(sh, rot, i) ==
    CASE sh = "known"    -> Task(TypeAt(rot, i), ParsedDesc, EmptyParams, <<>>)
      [] sh = "first"    -> Task(TypeAt(rot, 0), ParsedDesc, EmptyParams, <<>>)
      [] sh = "after0"   -> Task(TypeAt(rot, i), ParsedDesc, EmptyParams, <<0>>)
      [] sh = "forward"  -> Task(TypeAt(rot, i), ParsedDesc, EmptyParams, <<i + 1>>)
      [] sh = "limited"  -> Task("search", ParsedDesc,
                                 Params({"limit"}, <<>>, 3, <<>>, ""), <<>>)
      [] sh = "empty"    -> Task("", ParsedDesc, EmptyParams, <<>>)
      [] sh = "emptyfwd" -> Task("", ParsedDesc, EmptyParams, <<i, i + 1>>)
      [] OTHER           -> Task("geocode", ParsedDesc, EmptyParams, <<>>)

\* parsed lists of task descriptors
PlanLists ==
    UNION {{[i \in 1..n |-> ShapeTask(sh[i], rot, i - 1)] :
               sh \in [1..n -> Shapes], rot \in Rotations} : n \in 1..MaxLen}

\* parsed lists that hold an element that is no task descriptor
ScalarLists ==
    {<<Scalar>>, <<Scalar, Scalar>>,
     <<Task("search", ParsedDesc, EmptyParams, <<>>), Scalar>>,
     <<Scalar, Task("search", ParsedDesc, EmptyParams, <<>>)>>}

ParsedLists == PlanLists \cup ScalarLists

\* the collaborator's text, by what lines 472-494 make of it
FallbackResponses ==
    {[kind |-> "no_array", value |-> <<>>],
     [kind |-> "unparsable", value |-> <<>>],
     [kind |-> "parsed", value |-> <<>>]}

PlanResponses == {[kind |-> "parsed", value |-> v] : v \in ParsedLists}

\* the parsed lists shorter than the longest one
ShortPlanResponses == {r \in PlanResponses : Len(r.value) < MaxLen}

(***************************************************************************)
(* Specification of a run of execute                                       *)
(***************************************************************************)
\* lines 820-836: initial_state
InitialState ==
    /\ json_str = <<>>
    /\ workflow_plan = <<>>
    /\ current_step = 0
    /\ total_steps = 0
    /\ search_results = <<>>
    /\ downloaded_data = <<>>
    /\ processed_data = <<>>
    /\ analysis_results = <<>>
    /\ visualizations = <<>>
    /\ exports = <<>>
    /\ errors = <<>>
    /\ messages = SetToBag({Msg("human", 0)})
    /\ final_outputs = <<>>
    /\ result = NoResult
    /\ handled = <<>>
    /\ skipLog = <<>>

Init ==
    /\ \/ user_request \in RunRequests /\ llm_response \in FallbackResponses
       \/ user_request = <<>> /\ llm_response \in PlanResponses
       \/ user_request \in QuantityRunRequests /\ llm_response \in ShortPlanResponses
    /\ requested_limit = NoneInt
    /\ pc = "planner"
    /\ InitialState

Next ==
    \/ PlanWorkflow
    \/ RouteNextStep
    \/ ExecuteSearch
    \/ ExecuteDownload
    \/ ExecuteSpatialQuery
    \/ ExecuteTransform
    \/ ExecuteProcess
    \/ ExecuteAnalysis
    \/ ExecuteVisualization
    \/ ExecuteExport
    \/ ExecuteReturn

Spec == Init /\ [][Next]_vars


(***************************************************************************)
(* Specification of the heuristic builder alone                           *)
(***************************************************************************)
Hints == {NoneInt, SomeInt(0), SomeInt(7)}

InitHeuristic ==
    /\ user_request \in RequestsUpTo(MaxWords)
    /\ requested_limit \in Hints
    /\ llm_response = [kind |-> "no_array", value |-> <<>>]
    /\ pc = "builder"
    /\ InitialState

\* one call _create_smart_default_workflow(user_request, requested_limit)
BuildDefaultWorkflow ==
    /\ pc = "builder"
    /\ workflow_plan' = CreateSmartDefaultWorkflow(user_request, requested_limit)
    /\ total_steps' = Len(workflow_plan')
    /\ pc' = "built"
    /\ UNCHANGED <<user_request, llm_response, json_str, requested_limit, current_step,
                   search_results, downloaded_data, processed_data,
                   analysis_results, visualizations, exports, errors, messages,
                   final_outputs, result, handled, skipLog>>

SpecHeuristic == InitHeuristic /\ [][BuildDefaultWorkflow]_vars

(***************************************************************************)
(* Array extraction and the textual repair passes of _plan_workflow        *)
(* (lines 473-493).  A text is a sequence of characters.                   *)
(***************************************************************************)
Alphabet == {"[", "]", "}", ",", " ", "'", "x"}

Texts == UNION {[1..k -> Alphabet] : k \in 0..MaxText}

NoMatch == [found |-> FALSE, text |-> <<>>]

\* re.search(r'\[[\s\S]*?\]', plan_text): from the first '[' that has a ']'
\* after it to the first ']' after it (the quantifier is lazy)
FirstArrayMatch(text) ==
    LET opens == {i \in 1..Len(text) : text[i] = "["}
    IN  IF opens = {} THEN NoMatch
        ELSE LET i == CHOOSE a \in opens : \A b \in opens : a <= b
                 closes == {j \in (i + 1)..Len(text) : text[j] = "]"}
             IN  IF closes = {} THEN NoMatch
                 ELSE [found |-> TRUE,
                       text |-> SubSeq(text, i,
                                   CHOOSE a \in closes : \A b \in closes : a <= b)]

\* where \s*[closers] matches from position i on: the position of the
\* closer, or 0 when there is no match
CloserAfter(s, i, closers) ==
    LET solid == {j \in i..Len(s) : s[j] # " "}
    IN  IF solid = {} THEN 0
        ELSE LET j == CHOOSE a \in solid : \A b \in solid : a <= b
             IN  IF s[j] \in closers THEN j ELSE 0

RECURSIVE SubTrailing(_, _, _, _)
\* re.sub of a comma followed by \s* and a closer, from position i on;
\* keep_space tells whether the replacement keeps the whitespace (\1 of
\* line 483) or is the closer alone (lines 492-493)
SubTrailing(s, i, closers, keep_space) ==
    IF i > Len(s) THEN <<>>
    ELSE LET c == IF s[i] = "," THEN CloserAfter(s, i + 1, closers) ELSE 0
         IN  IF c # 0
             THEN (IF keep_space THEN SubSeq(s, i + 1, c) ELSE <<s[c]>>)
                      \o SubTrailing(s, c + 1, closers, keep_space)
             ELSE <<s[i]>> \o SubTrailing(s, i + 1, closers, keep_space)

\* line 483: re.sub(r',(\s*[}\]])', r'\1', json_str)
StripTrailingSeparators(s) == SubTrailing(s, 1, {"}", "]"}, TRUE)

\* lines 491-493: replace("'", '"'), then re.sub(r',\s*}', '}') and
\* re.sub(r',\s*]', ']')
NormalizeQuotes(s) ==
    LET quoted == [i \in 1..Len(s) |-> IF s[i] = "'" THEN "\"" ELSE s[i]]
    IN  SubTrailing(SubTrailing(quoted, 1, {"}"}, FALSE), 1, {"]"}, FALSE)

InitRepair ==
    /\ llm_response \in {[kind |-> "text", value |-> t] : t \in Texts}
    /\ user_request = <<>>
    /\ requested_limit = NoneInt
    /\ pc = "regex"
    /\ InitialState

\* lines 473-475
MatchArray ==
    /\ pc = "regex"
    /\ LET json_match == FirstArrayMatch(llm_response.value)
       IN  /\ json_str' = json_match.text
           /\ pc' = IF json_match.found THEN "candidate" ELSE "no_array"
    /\ UNCHANGED <<user_request, llm_response, requested_limit, workflow_plan,
                   current_step, total_steps, search_results, downloaded_data,
                   processed_data, analysis_results, visualizations, exports,
                   errors, messages, final_outputs, result, handled, skipLog>>

\* line 483 on the candidate, and once more on its own output
StripSeparators ==
    /\ pc \in {"candidate", "stripped"}
    /\ json_str' = StripTrailingSeparators(json_str)
    /\ pc' = IF pc = "candidate" THEN "stripped" ELSE "stripped_again"
    /\ UNCHANGED <<user_request, llm_response, requested_limit, workflow_plan,
                   current_step, total_steps, search_results, downloaded_data,
                   processed_data, analysis_results, visualizations, exports,
                   errors, messages, final_outputs, result, handled, skipLog>>

\* lines 491-493 on the stripped candidate, and once more on its own output
NormalizeQuoting ==
    /\ pc \in {"stripped", "normalized"}
    /\ json_str' = NormalizeQuotes(json_str)
    /\ pc' = IF pc = "stripped" THEN "normalized" ELSE "normalized_again"
    /\ UNCHANGED <<user_request, llm_response, requested_limit, workflow_plan,
                   current_step, total_steps, search_results, downloaded_data,
                   processed_data, analysis_results, visualizations, exports,
                   errors, messages, final_outputs, result, handled, skipLog>>

NextRepair ==
    \/ MatchArray
    \/ StripSeparators
    \/ NormalizeQuoting

SpecRepair == InitRepair /\ [][NextRepair]_vars

(***************************************************************************)
(* Specification of the quantity extractor alone                           *)
(***************************************************************************)
InitExtract ==
    /\ user_request \in RequestsUpTo(MaxWords)
    /\ requested_limit = NoneInt
    /\ llm_response = [kind |-> "no_array", value |-> <<>>]
    /\ pc = "extractor"
    /\ InitialState

\* line 388: requested_limit = self._extract_number(state['user_request'])
ExtractQuantity ==
    /\ pc = "extractor"
    /\ requested_limit' = ExtractNumber(user_request)
    /\ pc' = "extracted"
    /\ UNCHANGED <<user_request, llm_response, json_str, workflow_plan, current_step,
                   total_steps, search_results, downloaded_data, processed_data,
                   analysis_results, visualizations, exports, errors, messages,
                   final_outputs, result, handled, skipLog>>

SpecExtract == InitExtract /\ [][ExtractQuantity]_vars

(***************************************************************************)
(* Properties                                                              *)
(***************************************************************************)
Known(step) == step.step_type \in KnownStepTypeSet

\* execute has returned or an error has left it
Terminated == pc \in {"returned", "raised"}

PlanIndices == 0..(Len(workflow_plan) - 1)

\* how often index i was skipped by the router or handed to a handler
Visits(i) ==
    Cardinality({k \in 1..Len(skipLog) : skipLog[k] = i})
        + Cardinality({k \in 1..Len(handled) : handled[k].index = i})

\* the handler of task j's own step type was called on task j
Dispatched(j) ==
    \E k \in 1..Len(handled) :
        /\ handled[k].index = j
        /\ handled[k].node = StepAt(workflow_plan, j).step_type

RaisedAt(i) ==
    \E k \in 1..Len(handled) : handled[k].index = i /\ handled[k].outcome = "raise"

\* task j has a known step type and every dependency below j
Runnable(j) ==
    /\ Known(StepAt(workflow_plan, j))
    /\ AllDepsMet(StepAt(workflow_plan, j), j)

\* task k is where the router stops the run: dependencies met, step type unknown
TerminalTask(k) ==
    /\ ~Known(StepAt(workflow_plan, k))
    /\ AllDepsMet(StepAt(workflow_plan, k), k)

\* C1: when execute returns, every index 0..N-1 of the plan has been visited
\* exactly once, by a router skip or by one handler call, and current_step
\* is N.  Stated for plans whose tasks all have a known step type, so that
\* the terminal unknown-type case is not what refutes it.
C1_EachIndexVisitedOnce ==
    (pc = "returned" /\ \A i \in PlanIndices : Known(StepAt(workflow_plan, i)))
        => /\ current_step = total_steps
           /\ \A i \in PlanIndices : Visits(i) = 1

\* C2: no handler is ever called on a task whose dependency list holds an
\* index at or above the task's own position.
C2_UnmetTaskNeverHandled ==
    \A k \in 1..Len(handled) :
        AllDepsMet(StepAt(workflow_plan, handled[k].index), handled[k].index)

C4_SuccessIffNoErrors ==
    result.returned =>
        /\ result.errors = errors
        /\ result.success <=> (errors = <<>>)

C4_Witness ==
    /\ result.returned
    /\ result.success
    /\ Len(skipLog) >= 2
    /\ handled # <<>>

\* C5: when the plan holds a task with met dependencies and a step type that
\* is none of the 8 known ones, the run ends normally at the first such
\* task: execute returns its result and no handler was called on that task
\* or on a later one.
C5_UnknownTypeEndsNormally ==
    \A u \in PlanIndices :
        (/\ Terminated
         /\ TerminalTask(u)
         /\ \A k \in PlanIndices : k < u => ~TerminalTask(k))
            => /\ pc = "returned"
               /\ result.returned
               /\ \A k \in 1..Len(handled) : handled[k].index < u

\* C6: the heuristic builder returns at least one task, for every request
\* text and every quantity hint.
C6_HeuristicPlanNotEmpty ==
    pc = "built" => Len(workflow_plan) >= 1

C6_Witness ==
    /\ pc = "built"
    /\ user_request = <<>>
    /\ requested_limit = NoneInt
    /\ Len(workflow_plan) = 1

\* C8: no error leaves execute, whatever the collaborator returned.
C8_NoErrorEscapes ==
    pc # "raised"

\* C9: when a run stops, execute has returned a result that holds every
\* artifact the steps merged into the state.
C9_PartialResultsReturned ==
    Terminated =>
        /\ result.search_results = search_results
        /\ result.downloaded_data = downloaded_data
        /\ result.processed_data = processed_data
        /\ result.analysis_results = analysis_results
        /\ result.visualizations = visualizations
        /\ result.final_outputs = final_outputs

\* planning has completed: the planner node returned
Planned == pc # "planner" /\ ~(pc = "raised" /\ PlanRaises(llm_response.value))

\* C10: after planning the stored plan is never empty, and when no array was
\* found, every repair pass failed or the parsed list was empty, it is the
\* heuristic builder's plan for the request and its quantity hint.
C10_PlanNeverEmpty ==
    Planned =>
        /\ total_steps >= 1
        /\ total_steps = Len(workflow_plan)
        /\ llm_response \in FallbackResponses
              => workflow_plan =
                    CreateSmartDefaultWorkflow(user_request, ExtractNumber(user_request))

C10_Witness ==
    /\ pc = "router"
    /\ llm_response = [kind |-> "parsed", value |-> <<>>]
    /\ total_steps >= 2

(***************************************************************************)
(* Steps of the loop, read off the two histories                           *)
(***************************************************************************)
\* this step is one handler call / one handler call that returned
IsHandlerStep == Len(handled') = Len(handled) + 1

IsReturnStep == IsHandlerStep /\ handled'[Len(handled')].outcome # "raise"

IsRaiseStep == IsHandlerStep /\ handled'[Len(handled')].outcome = "raise"

\* this step is a router step in which the dependency gate skipped a task
IsSkipStep == Len(skipLog') > Len(skipLog)

\* the index of the task the router chose the running handler for
RoutedIndex == ShouldContinue(workflow_plan, current_step).at

AllKnown == \A i \in PlanIndices : Known(StepAt(workflow_plan, i))

\* C11: current_step is 0 after planning and never decreases; a handler call
\* (returned or raised) increases it by 1 and a router step by 1 for each
\* task it skips; on plans of known step types the router signals
\* termination exactly when current_step equals total_steps.
C11_PointerAdvancesByOne ==
    [][/\ current_step' >= current_step
       /\ (pc = "planner" /\ pc' = "router") => current_step' = 0
       /\ IsHandlerStep => current_step' = current_step + 1
       /\ IsSkipStep =>
             current_step' = current_step + (Len(skipLog') - Len(skipLog))
       /\ (pc = "router" /\ AllKnown) =>
             (pc' = "END" <=> current_step' = total_steps)]_vars

\* C12: a handler call that returned for the routed task at index i updated
\* the state by the fixed mapping: search replaces search_results, download
\* keeps every existing name, spatial_query / transform / process store what
\* was produced under "<step_type>_<i>" in processed_data, analysis under
\* "analysis_<i>" in analysis_results, visualization appends to
\* visualizations, export appends the same location to exports and
\* final_outputs; every other artifact field is left alone.
C12_FixedMapping ==
    [][IsReturnStep =>
         LET i == RoutedIndex
             step_type == StepAt(workflow_plan, i).step_type
             outcome == handled'[Len(handled')].outcome
             key == StepKey(step_type, i)
         IN  /\ step_type = "search" =>
                   /\ Len(search_results') = (IF outcome = "value" THEN 1 ELSE 0)
                   /\ UNCHANGED <<downloaded_data, processed_data, analysis_results,
                                  visualizations, exports, final_outputs>>
             /\ step_type = "download" =>
                   /\ DOMAIN downloaded_data \subseteq DOMAIN downloaded_data'
                   /\ \A n \in DOMAIN downloaded_data :
                         n # outcome => downloaded_data'[n] = downloaded_data[n]
                   /\ UNCHANGED <<search_results, processed_data, analysis_results,
                                  visualizations, exports, final_outputs>>
             /\ step_type \in {"spatial_query", "transform", "process"} =>
                   /\ outcome # "absent" =>
                         /\ DOMAIN processed_data' = DOMAIN processed_data \cup {key}
                         /\ \A k \in DOMAIN processed_data :
                               k # key => processed_data'[k] = processed_data[k]
                   /\ outcome = "absent" => UNCHANGED processed_data
                   /\ UNCHANGED <<search_results, downloaded_data, analysis_results,
                                  visualizations, exports, final_outputs>>
             /\ step_type = "analysis" =>
                   /\ DOMAIN analysis_results' =
                          DOMAIN analysis_results \cup {StepKey("analysis", i)}
                   /\ \A k \in DOMAIN analysis_results :
                         k # StepKey("analysis", i)
                             => analysis_results'[k] = analysis_results[k]
                   /\ UNCHANGED <<search_results, downloaded_data, processed_data,
                                  visualizations, exports, final_outputs>>
             /\ step_type = "visualization" =>
                   /\ outcome = "value" =>
                         /\ Len(visualizations') = Len(visualizations) + 1
                         /\ SubSeq(visualizations', 1, Len(visualizations))
                                = visualizations
                   /\ outcome # "value" => UNCHANGED visualizations
                   /\ UNCHANGED <<search_results, downloaded_data, processed_data,
                                  analysis_results, exports, final_outputs>>
             /\ step_type = "export" =>
                   /\ outcome = "value" =>
                         /\ Len(exports') = Len(exports) + 1
                         /\ SubSeq(exports', 1, Len(exports)) = exports
                         /\ final_outputs' =
                                Append(final_outputs, exports'[Len(exports')])
                   /\ outcome # "value" => UNCHANGED <<exports, final_outputs>>
                   /\ UNCHANGED <<search_results, downloaded_data, processed_data,
                                  analysis_results, visualizations>>]_vars

\* the entries of messages that handler nodes appended, with multiplicity
StepMessages(msgs) ==
    LET step == {m \in BagToSet(msgs) :
                    m.content \notin {"human", "Workflow planned"}}
    IN  BagCardinality([m \in step |-> msgs[m]])

\* C13: when execute returns, messages holds one handler entry for each
\* handler call of the run, whether that call returned or raised.
C13_OneMessagePerCall ==
    result.returned => StepMessages(result.messages) = Len(handled)

\* the capitalised step name an error entry starts with
StepTitle(step_type) ==
    CASE step_type = "search"        -> "Search"
      [] step_type = "download"      -> "Download"
      [] step_type = "spatial_query" -> "Spatial query"
      [] step_type = "transform"     -> "Transform"
      [] step_type = "process"       -> "Process"
      [] step_type = "analysis"      -> "Analysis"
      [] step_type = "visualization" -> "Visualization"
      [] OTHER                       -> "Export"

RaisedCalls(log) == Cardinality({k \in 1..Len(log) : log[k].outcome = "raise"})

\* C14: a handler call that raises appends exactly one entry to errors,
\* "<StepType> step failed: <message>" for the step type the call was routed
\* for, and leaves every artifact field as it was; errors never loses an
\* entry, and its length is the number of handler calls that raised.
C14_RaiseRecordsOneError ==
    [][/\ IsRaiseStep =>
             /\ errors' = Append(errors,
                   [step |-> StepTitle(StepAt(workflow_plan, RoutedIndex).step_type),
                    message |-> "E"])
             /\ UNCHANGED <<search_results, downloaded_data, processed_data,
                            analysis_results, visualizations, exports,
                            final_outputs>>
       /\ Len(errors') >= Len(errors)
       /\ SubSeq(errors', 1, Len(errors)) = errors
       /\ Len(errors') = RaisedCalls(handled')]_vars

C14_Witness ==
    /\ result.returned
    /\ Len(result.errors) = 2
    /\ result.errors[1].step # result.errors[2].step
    /\ result.search_results # <<>>
    /\ Len(handled) = 3

\* task i names a dependency at or above its own position
UnmetAt(i) ==
    \E k \in 1..Len(StepAt(workflow_plan, i).dependencies) :
        StepAt(workflow_plan, i).dependencies[k] >= i

\* C15: a skip by the dependency gate leaves errors, every artifact field and
\* the entries of messages as they were, and a run of a plan whose tasks are
\* all skipped calls no handler and returns success = true with empty
\* artifacts.
C15_SkipChangesNothingElse ==
    [][/\ IsSkipStep =>
             /\ UNCHANGED <<errors, search_results, downloaded_data,
                            processed_data, analysis_results, visualizations,
                            exports, final_outputs, handled>>
             /\ BagToSet(messages') = BagToSet(messages)
       /\ (result'.returned /\ \A i \in PlanIndices : UnmetAt(i)) =>
             /\ handled' = <<>>
             /\ result'.success
             /\ result'.errors = <<>>
             /\ result'.search_results = <<>>
             /\ result'.downloaded_data = <<>>
             /\ result'.processed_data = <<>>
             /\ result'.analysis_results = <<>>
             /\ result'.visualizations = <<>>
             /\ result'.final_outputs = <<>>]_vars

C15_Witness ==
    /\ result.returned
    /\ result.success
    /\ total_steps >= 2
    /\ \A i \in PlanIndices : UnmetAt(i) /\ Known(StepAt(workflow_plan, i))
    /\ Len(skipLog) = total_steps

\* every dependency index of task j is below j
DepsBelow(j) ==
    \A k \in 1..Len(StepAt(workflow_plan, j).dependencies) :
        StepAt(workflow_plan, j).dependencies[k] < j

TasksOfType(types) ==
    {i \in PlanIndices : StepAt(workflow_plan, i).step_type \in types}

RequestUrls == SelectTokens(user_request, UrlTokens)

\* C17: the heuristic plan holds a SEARCH task exactly when the request has
\* no URL and (none of download/get/fetch/retrieve/obtain is in the text, or
\* "search" is); that task has the request as its query, no dependencies,
\* and a limit parameter exactly when a quantity hint exists (0 included),
\* equal to the hint.
C17_SearchTaskRule ==
    pc = "built" =>
        /\ (TasksOfType({"search"}) # {})
              <=> (/\ RequestUrls = <<>>
                   /\ \/ ~ContainsAny(user_request, download_keywords)
                      \/ Contains(user_request, "search"))
        /\ \A i \in TasksOfType({"search"}) :
              LET step == StepAt(workflow_plan, i)
              IN  /\ step.parameters.query = user_request
                  /\ "query" \in step.parameters.keys
                  /\ step.dependencies = <<>>
                  /\ ("limit" \in step.parameters.keys) <=> requested_limit.some
                  /\ requested_limit.some =>
                        step.parameters.limit = requested_limit.val

\* a detected URL as the download task carries it: itself, or the raw form
\* of a GitHub blob URL
CarriedAs(url, carried) ==
    carried = url \/ (url = BlobUrl /\ carried = RawUrl)

C19_DataBeforeOutput ==
    pc = "built" =>
        /\ \A i \in TasksOfType({"visualization", "export"}) :
              /\ \E k \in TasksOfType({"download", "process", "analysis"}) : k < i
              /\ StepAt(workflow_plan, i).dependencies = <<i - 1>>
        /\ (/\ TasksOfType({"visualization", "export"}) # {}
            /\ RequestUrls = <<>>
            /\ ~ContainsAny(user_request, download_keywords)
            /\ ~ContainsAny(user_request, process_keywords))
              => /\ StepAt(workflow_plan, 0).step_type = "search"
                 /\ StepAt(workflow_plan, 1).step_type = "download"
                 /\ StepAt(workflow_plan, 1).dependencies = <<0>>

C19_Witness ==
    /\ pc = "built"
    /\ user_request = <<"map", "export">>
    /\ Len(workflow_plan) = 4
    /\ StepAt(workflow_plan, 1).step_type = "download"
    /\ StepAt(workflow_plan, 3).dependencies = <<2>>

\* the plan was parsed from the collaborator's text, not built
PlanWasParsed == llm_response.kind = "parsed" /\ llm_response.value # <<>>

\* C20: after planning, when the request holds a quantity hint every SEARCH
\* task of the stored plan that came without a limit has limit = hint and
\* one that came with a limit keeps it (a built plan's SEARCH task has the
\* hint as its limit); when the request holds no hint a parsed plan is
\* stored as it was parsed.
C20_HintInjected ==
    (Planned /\ pc # "raised") =>
        LET hint == ExtractNumber(user_request)
        IN  /\ PlanWasParsed =>
                  /\ Len(workflow_plan) = Len(llm_response.value)
                  /\ \A i \in 1..Len(workflow_plan) :
                        LET parsed == llm_response.value[i]
                        IN  IF /\ hint.some
                               /\ parsed.step_type = "search"
                               /\ "limit" \notin parsed.parameters.keys
                            THEN /\ "limit" \in workflow_plan[i].parameters.keys
                                 /\ workflow_plan[i].parameters.limit = hint.val
                            ELSE workflow_plan[i] = parsed
            /\ (~PlanWasParsed /\ hint.some) =>
                  \A i \in TasksOfType({"search"}) :
                      /\ "limit" \in StepAt(workflow_plan, i).parameters.keys
                      /\ StepAt(workflow_plan, i).parameters.limit = hint.val

(***************************************************************************)
(* Handler calls                                                           *)
(***************************************************************************)
\* C24 as claimed: every handler call was made with the description and the
\* parameters of the task at the current_step it was called at.
C24_CalledWithOwnTask ==
    \A k \in 1..Len(handled) :
        LET step == StepAt(workflow_plan, handled[k].index)
        IN  /\ handled[k].description = step.description
            /\ handled[k].parameters = step.parameters

\* C24 amended: ... with the parameters of the task at the current_step it
\* was called at, and with that task's description, except the download
\* handler, which is called with the user's request text as description.
C24_CalledWithOwnTaskOrRequest ==
    \A k \in 1..Len(handled) :
        LET step == StepAt(workflow_plan, handled[k].index)
        IN  /\ handled[k].parameters = step.parameters
            /\ handled[k].node # "download" =>
                  handled[k].description = step.description
            /\ handled[k].node = "download" =>
                  /\ handled[k].description.request = user_request
                  /\ handled[k].description.text = ""

C24_Witness ==
    /\ pc = "returned"
    /\ \E k \in 1..Len(handled) :
          /\ handled[k].node = "download"
          /\ handled[k].parameters.keys # {}
          /\ handled[k].description # StepAt(workflow_plan, handled[k].index).description
    /\ \E k \in 1..Len(handled) :
          /\ handled[k].node = "search"
          /\ "query" \in handled[k].parameters.keys
          /\ handled[k].description.request = user_request

\* C25: once the planner has stored the plan, no step of the run changes
\* workflow_plan or total_steps, and total_steps is the plan's length.
C25_PlanFixedAfterPlanning ==
    [][pc # "planner" =>
          /\ workflow_plan' = workflow_plan
          /\ total_steps' = total_steps
          /\ total_steps' = Len(workflow_plan')]_vars

C25_Witness ==
    /\ pc = "returned"
    /\ total_steps = 3
    /\ skipLog # <<>>
    /\ \E k \in 1..Len(handled) : handled[k].outcome = "raise"
    /\ \E k \in 1..Len(handled) : handled[k].outcome = "value"

\* C26: whenever a handler node is about to run, the task at current_step is
\* the one the router selected: its step type is the node's capability and
\* none of its dependencies is at or above current_step.
C26_HandlerSeesRoutedTask ==
    pc \in KnownStepTypeSet =>
        /\ current_step < Len(workflow_plan)
        /\ StepAt(workflow_plan, current_step).step_type = pc
        /\ \A k \in 1..Len(StepAt(workflow_plan, current_step).dependencies) :
              StepAt(workflow_plan, current_step).dependencies[k] < current_step

\* C27: in a plan of the heuristic builder every dependency index d of the
\* task at position i satisfies 0 <= d < i, so the dependency gate skips no
\* task of it, wherever the router starts from.
C27_HeuristicPlanExecutable ==
    pc = "built" =>
        /\ \A i \in PlanIndices :
              \A k \in 1..Len(StepAt(workflow_plan, i).dependencies) :
                  /\ 0 <= StepAt(workflow_plan, i).dependencies[k]
                  /\ StepAt(workflow_plan, i).dependencies[k] < i
        /\ \A at \in 0..Len(workflow_plan) :
              ShouldContinue(workflow_plan, at).skipped = <<>>

C27_Witness ==
    /\ pc = "built"
    /\ Len(workflow_plan) = 4
    /\ RequestUrls = <<>>
    /\ requested_limit = SomeInt(7)
    /\ \A i \in PlanIndices : i > 0 => StepAt(workflow_plan, i).dependencies = <<i - 1>>

ExportsProduced ==
    Cardinality({k \in 1..Len(handled) :
                    handled[k].node = "export" /\ handled[k].outcome = "value"})

\* C28: in every state of a run exports and final_outputs are the same
\* sequence, with one entry for each export call that produced a path.
C28_ExportsAreFinalOutputs ==
    /\ exports = final_outputs
    /\ Len(exports) = ExportsProduced
    /\ result.returned => result.final_outputs = exports

C28_Witness ==
    /\ result.returned
    /\ Len(result.final_outputs) = 1
    /\ Len(visualizations) = 1
    /\ \E k \in 1..Len(handled) :
          handled[k].node = "export" /\ handled[k].outcome = "value"

\* C29: a handler call that returns without what it should produce (the
\* result with an error field) is no failure: while no call has raised,
\* errors is empty, current_step has advanced once per call, and execute
\* returns success = true.
C29_ErrorFieldIsNoFailure ==
    (\A k \in 1..Len(handled) : handled[k].outcome # "raise") =>
        /\ errors = <<>>
        /\ (skipLog = <<>> /\ pc \in KnownStepTypeSet \cup {"router", "END", "returned"})
              => current_step = Len(handled)
        /\ result.returned => result.success

C29_Witness ==
    /\ result.returned
    /\ result.success
    /\ Len(handled) = 3
    /\ \A k \in 1..Len(handled) : handled[k].outcome = "null"
    /\ \E k \in 1..Len(handled) : handled[k].node = "process"
    /\ current_step = 3

\* the index of the task the router selected for the k-th handler call
RoutedFor(k) == ShouldContinue(workflow_plan, handled[k].index).at

\* C30: the router selects no task twice, and there are at most as many
\* handler calls as the plan has tasks (so the router is evaluated at most
\* total_steps + 1 times before the run ends).
C30_NoTaskDispatchedTwice ==
    /\ \A k1 \in 1..Len(handled) : \A k2 \in 1..Len(handled) :
          k1 # k2 => RoutedFor(k1) # RoutedFor(k2)
    /\ Len(handled) <= Len(workflow_plan)

(***************************************************************************)
(* Quantity extraction                                                     *)
(***************************************************************************)
\* positions of the tokens of text that are in S
PositionsIn(text, S) == {i \in 1..Len(text) : text[i] \in S}

FirstPosition(P) == CHOOSE i \in P : \A j \in P : i <= j

\* the first contiguous run of number words of a text that has one, cut to
\* three words
FirstNumberRun(text) ==
    LET start == FirstPosition(PositionsIn(text, NumberWords))
        last == CHOOSE j \in start..Min(start + 2, Len(text)) :
                    /\ \A i \in start..j : text[i] \in NumberWords
                    /\ \/ j = Min(start + 2, Len(text))
                       \/ text[j + 1] \notin NumberWords
    IN  SubSeq(text, start, last)

\* C23: the extractor returns the value of the first digit run when the
\* text has one, wherever number words stand; otherwise the conversion of
\* the first contiguous run of up to three number words; otherwise none.
C23_FirstDigitsElseFirstWordRun ==
    pc = "extracted" =>
        IF PositionsIn(user_request, DigitTokens) # {}
        THEN requested_limit =
                 SomeInt(DigitValue(
                     user_request[FirstPosition(PositionsIn(user_request, DigitTokens))]))
        ELSE IF PositionsIn(user_request, NumberWords) # {}
             THEN requested_limit = SomeInt(Word2Num(FirstNumberRun(user_request)))
        ELSE requested_limit = NoneInt

(***************************************************************************)
(* Array extraction and repair passes                                      *)
(***************************************************************************)
\* C21: a repair pass applied to its own output changes nothing, for the
\* trailing-separator strip and for the quote normalization.
C21_RepairPassesIdempotent ==
    [][/\ (pc = "stripped" /\ pc' = "stripped_again") => json_str' = json_str
       /\ (pc = "normalized" /\ pc' = "normalized_again") => json_str' = json_str]_vars

\* the positions j at which the brackets of text[i..j] balance
BalancedEnds(text, i) ==
    {j \in i..Len(text) :
        Cardinality({k \in i..j : text[k] = "["})
            = Cardinality({k \in i..j : text[k] = "]"})}

\* C22: when the first '[' of the collaborator's text has a ']' that
\* balances it, the extracted candidate runs from that '[' to that ']'.
C22_ExtractsBalancedArray ==
    pc = "candidate" =>
        LET text == llm_response.value
            opens == {i \in 1..Len(text) : text[i] = "["}
            first == CHOOSE a \in opens : \A b \in opens : a <= b
            ends == BalancedEnds(text, first)
        IN  ends # {} =>
                json_str = SubSeq(text, first,
                               CHOOSE a \in ends : \A b \in ends : a <= b)

=============================================================================
